---- MODULE Spec2Model ----
(***************************************************************************)
(* PineBar analytics dashboard: the synthetic data generator               *)
(* (generate_data of src/data_processing.py and of src/app/app.py), the    *)
(* category filter, the group-by aggregation and the views built on them.  *)
(*                                                                         *)
(* Numbers.  Amounts (Total Amount, the adjustment amounts, Transaction    *)
(* Amount) are whole dollars; Cost and Profit are in 1/10000 dollar, so    *)
(* that Total Amount * cost_factor is exact.  The float total_amount of    *)
(* app.py is kept at one-dollar resolution.  A column multiplied by the    *)
(* global scaling factor is not multiplied out: the table records which    *)
(* columns were scaled and the factor as a fraction, and values are        *)
(* compared as linear forms a * factor + b in exact arithmetic.            *)
(*                                                                         *)
(* Random source.  numpy's generator is a deterministic machine: a state,  *)
(* a step, an output per state.  Here the state is a position on a cycle   *)
(* of Period outputs, np.random.seed(s) sets the position from s, every    *)
(* draw reads the output at the position and advances it.  The outputs on  *)
(* the cycle (gen) are chosen freely in Init, so the properties are        *)
(* checked for every such generator, not for one stream.                   *)
(***************************************************************************)
EXTENDS Integers, Sequences, FiniteSets, TLC

VARIABLES
    gen,        \* the random source's output per state: 1..Period -> {0, 1}
    rng,        \* the process-wide random state (position on the cycle)
    variant,    \* which generate_data runs: "dp" (data_processing.py) or "app" (app.py)
    history,    \* the calls made so far: <<[option, result]>>
    input,      \* the table handed to the filter and the views
    df,         \* the current (filtered) table
    category_filter, \* the selection last applied by the filter
    applied,    \* the filters applied to input so far, in order
    df_once,    \* the table after the first filter application
    view,       \* the results of the views computed on df, in order
    loaded,     \* the outcome of load_data, once it was called: <<[file, raised, message]>>
    render      \* the dashboard script's run: its position and the sidebar values it read

vars == <<gen, rng, variant, history, input, df, category_filter, applied, df_once, view,
          loaded, render>>

(***************************************************************************)
(* Bounds of the model.                                                    *)
(***************************************************************************)
Period == 6        \* length of the random source's cycle
MaxItems == 4      \* items kept of each category's catalog list
MaxCalls == 2      \* calls of generate_data in one behaviour
MaxRows == 21      \* rows of the largest table handed to the views
MaxSelected == 3   \* categories selected at once in the sidebar

Min(a, b) == IF a < b THEN a ELSE b

\* floor(a * b / d) for a, b >= 0, d > 0, without forming a * b
MulDiv(a, b, d) == (a \div d) * b + ((a % d) * b) \div d

RECURSIVE GCD(_, _)
GCD(a, b) == IF b = 0 THEN a ELSE GCD(b, a % b)

Abs(a) == IF a < 0 THEN -a ELSE a
Sign(a) == IF a < 0 THEN -1 ELSE IF a > 0 THEN 1 ELSE 0

\* a / b = c / d as fractions (b, d # 0), compared in lowest terms
RatEq(a, b, c, d) ==
    LET g == GCD(Abs(a), Abs(b))
        h == GCD(Abs(c), Abs(d))
    IN  /\ Sign(a) * Sign(b) = Sign(c) * Sign(d)
        /\ Abs(a) \div g = Abs(c) \div h
        /\ Abs(b) \div g = Abs(d) \div h

(***************************************************************************)
(* The catalog.                                                            *)
(***************************************************************************)
CategoryOrder == <<"BEER", "COCKTAILS", "FOOD", "SPIRITS", "WINE", "N/A", "Merch">>

all_categories == {CategoryOrder[i] : i \in 1..Len(CategoryOrder)}

catalog ==
    [BEER |-> <<"Hemlock", "CURRENT CAN", "GANSETT", "N/A BEER", "Return Beer",
                "SIX POINT", "Vermonter Cider">>,
     COCKTAILS |-> <<"BEAD & FEATHER", "BLACK MANHATTAN", "CARPETBAGGER",
                "COCKTAIL OF THE DAY", "COCKTAIL SHAKEN", "COCKTAIL STIRRED",
                "Daiquiri", "Gershwin", "Gimlet", "Gin & Sin", "HAITIAN DIVORCE",
                "HOT DRINX", "Manhattan", "Margarita", "Martini Gin", "Martini Vodka",
                "Negroni", "Old Fashioned", "Open Cocktail", "Paper Plane",
                "Penicillin", "Pineapple Daiq", "pineapple daiquiri",
                "POP-UP COCKTAIL", "Rainy Day Dark And Stormy", "SAZERAC COCKTAIL",
                "SHOOTER", "Soda", "SPRITZ", "TITOS MARTINI", "TONE POLICE">>,
     FOOD |-> <<"BABA GHANO0USH", "BEEF TARTARE", "BITTER SALAD", "BOQUERONES",
                "BROWNIE", "Burger", "CARROTS", "CAVIAR DOG", "CHARRED BEETS",
                "CHICKEM KEBAB", "CHX SANDWICH", "CROQUETTES", "Doggie",
                "DUCK RILLETTES", "EXTRA FOCACCIA", "Extra Patty", "FALAFEL",
                "FOCACCIA", "FRENCH FRIES", "Fries", "HANDER STEAK", "HUMMUS",
                "LAMB KABAB", "LEEK TOAST", "MEZE PLATTER", "MEZE PLATTY", "PLATTY",
                "MOUSSE", "MOZZ STICKS", "MUHAMMARA", "NYE TACOS",
                "OLIVES AND PICKELS", "Open Food", "Order note", "Pimento Cheese",
                "Salad", "SAUSAGE", "SEA TROUT", "Smash - Vegan Patty",
                "STEAK FRITES", "SUNCHOKES", "TOSTADA", "TZATZIKI", "VCC">>,
     SPIRITS |-> <<"AMARGO VALLET", "Amaro", "Balvenie", "Bourbon", "BW WHEAT",
                "CAMPARI", "CASCUIN TAHONA", "CURRENT CASSIS", "CYNAR",
                "EL DORADO 12", "ESPOLON", "Fernet", "Gin", "Hendricks", "Juice",
                "Macallan 18", "Makers", "Mezcal", "Michters", "MONTENEGRO",
                "NONINO", "OLD FORESTER 100", "Open Spirit", "Rare Breed",
                "RITTENHOUSE", "Rum", "SAZERAC", "Scotch", "SHOT 4$", "SHOT 5$",
                "SHOT 6$", "SHOT 7$", "SHOT 8$", "SHOT 9$", "Spirit", "SUZE",
                "Talisker", "Tequila", "TEREMANA REPOSADO", "Tesoro", "Titos",
                "Toki", "TULLY", "Vodka", "Wathen's", "ZACAPA">>,
     WINE |-> <<"BTL Fizzy", "GLS Fizzy", "GLS Red", "GLS Rose", "GLS White",
                "OPEN WINE">>,
     NA |-> <<"Ginger Beer", "Mock Turtleneck", "POP-UP MOCKTAIL">>,
     Merch |-> <<"Candle 2 oz", "Candle 9oz", "Misc", "GIFT CERTIFICATE">>]

CatalogKey(category) == IF category = "N/A" THEN "NA" ELSE category

categories_doubled(category) ==
    LET items == catalog[CatalogKey(category)]
    IN  SubSeq(items, 1, Min(MaxItems, Len(items))) \o <<items[1]>>

\* the items of a category the loops visit: the first MaxItems of its list
categories(category) ==
    LET items == catalog[CatalogKey(category)]
    IN  SubSeq(items, 1, Min(MaxItems, Len(items)))

Options == {"2023 Full Year", "2024 Full Year", "2025 (up to March 5)"}

\* the if / elif / else on option: seed, year tag, target_total_sales in cents
period(option) ==
    IF option = "2023 Full Year"
        THEN [seed |-> 2023, year |-> "2023", target_total_sales |-> 29705100]
    ELSE IF option = "2024 Full Year"
        THEN [seed |-> 2024, year |-> "2024", target_total_sales |-> 32675610]
    ELSE [seed |-> 2025, year |-> "2025", target_total_sales |-> 8911530]

\* target_revenue of the option, in 1/1000 dollar: 303546.72, times 1.10, times 0.30
target_revenue(option) ==
    IF option = "2023 Full Year" THEN 303546720
    ELSE IF option = "2024 Full Year" THEN 333901392
    ELSE 91064016

\* share of target_total_sales per category, in thousandths
category_weights(category) ==
    CASE category = "SPIRITS" -> 359
      [] category = "FOOD" -> 317
      [] category = "COCKTAILS" -> 191
      [] category = "BEER" -> 69
      [] category = "WINE" -> 35
      [] category = "N/A" -> 20
      [] category = "Merch" -> 9

(***************************************************************************)
(* The random source.  k counts the draws since the start of the cycle.    *)
(***************************************************************************)
np_random_seed_skipped(seed, state) == state

\* np.random.seed(seed): the state the seed selects, whatever the state was
np_random_seed(seed, state) == seed % Period

\* np.random.random() at draw k, in hundredths: a value of [0, 1)
random(k) == gen[(k % Period) + 1] * 99

\* np.random.randint(low, high) at draw k: a value of low .. high - 1
randint(low, high, k) == low + (random(k) * (high - low)) \div 100

(***************************************************************************)
(* generate_data: one record.                                              *)
(***************************************************************************)
int_fraction_fourfold(x, pct) == (x * pct * 4) \div 100

\* int(x * pct / 100): the upper bound of an adjustment draw
int_fraction(x, pct) == (x * pct) \div 100

\* One adjustment bucket (discounted, offered, loss, returned):
\*   amount = sign * randint(0, int(total_amount * amount_pct) + 1) if random() > threshold else 0
\*   quantity = randint(0, int(total_quantity * quantity_pct) + 1) if amount is set else 0
\*   transactions = randint(0, min(cap, quantity + 1)) if quantity > 0 else 0
\* The gate is drawn first; a draw that is not evaluated consumes nothing.
adjustment(k, total_amount, total_quantity, threshold, amount_pct, quantity_pct, cap, sign) ==
    LET gate == random(k) > threshold
        amount == IF gate
                    THEN sign * randint(0, int_fraction(total_amount, amount_pct) + 1, k + 1)
                    ELSE 0
        k1 == IF gate THEN k + 2 ELSE k + 1
        set == IF sign < 0 THEN amount < 0 ELSE amount > 0
        quantity == IF set
                      THEN randint(0, int_fraction(total_quantity, quantity_pct) + 1, k1)
                      ELSE 0
        k2 == IF set THEN k1 + 1 ELSE k1
        transactions == IF quantity > 0
                          THEN randint(0, Min(cap, quantity + 1), k2)
                          ELSE 0
        k3 == IF quantity > 0 THEN k2 + 1 ELSE k2
    IN  [amount |-> amount, quantity |-> quantity, transactions |-> transactions, k |-> k3]

transaction_amount_less_twice(total_amount, disc_amount, offered_amount, loss_amount, returned_amount) ==
    total_amount + 4 * (disc_amount + loss_amount + returned_amount) + offered_amount

\* transaction_amount = total_amount + disc_amount + offered_amount + loss_amount + returned_amount
transaction_amount(total_amount, disc_amount, offered_amount, loss_amount, returned_amount) ==
    total_amount + disc_amount + offered_amount + loss_amount + returned_amount

transaction_quantity_reversed(total_quantity, zero_priced, disc_quantity, offered_quantity, loss_quantity, returned_quantity) ==
    zero_priced + disc_quantity + offered_quantity + loss_quantity + returned_quantity
        - total_quantity

\* transaction_quantity = total - the five quantities; if transaction_quantity < 0: = 0
transaction_quantity(total_quantity, zero_priced, disc_quantity, offered_quantity, loss_quantity, returned_quantity) ==
    LET q == total_quantity - zero_priced - disc_quantity - offered_quantity
                 - loss_quantity - returned_quantity
    IN  IF q < 0 THEN 0 ELSE q

cost_factor_of_food(category, r) == 4000 + 15 * r

\* cost_factor of a category for a draw r (hundredths), in 1/10000:
\* BEER 0.35 + r * 0.1, ..., FOOD 0.4 + r * 0.15, ..., Merch 0.5 + r * 0.2
cost_factor(category, r) ==
    CASE category = "BEER" -> 3500 + 10 * r
      [] category = "COCKTAILS" -> 2500 + 10 * r
      [] category = "FOOD" -> 4000 + 15 * r
      [] category = "SPIRITS" -> 3000 + 10 * r
      [] category = "WINE" -> 4500 + 10 * r
      [] category = "N/A" -> 1500 + 10 * r
      [] category = "Merch" -> 5000 + 20 * r

CategoryIndex(category) == CHOOSE i \in 1..Len(CategoryOrder) : CategoryOrder[i] = category

\* The draw that gives the category's cost factor and the draws consumed.
\* data_processing.py builds the whole dict, one random() per category in
\* dict order, and reads the category's entry; app.py draws once in an elif.
cost_draw(v, category, k) ==
    IF v = "dp"
        THEN [r |-> random(k + CategoryIndex(category) - 1), k |-> k + Len(CategoryOrder)]
        ELSE [r |-> random(k), k |-> k + 1]

profit_margin_as_ratio(profit, amount) ==
    IF amount > 0
        THEN [n |-> profit, d |-> amount, ns |-> FALSE, ds |-> FALSE]
        ELSE [n |-> 0, d |-> 1, ns |-> FALSE, ds |-> FALSE]

\* profit_margin = (profit / transaction_amount * 100) if transaction_amount > 0 else 0,
\* kept as the fraction n / d of a Profit in 1/10000 dollar over an amount in dollars;
\* ns, ds tell whether numerator and denominator carry the scaling factor.
profit_margin(profit, amount) ==
    IF amount > 0
        THEN [n |-> profit, d |-> amount * 100, ns |-> FALSE, ds |-> FALSE]
        ELSE [n |-> 0, d |-> 1, ns |-> FALSE, ds |-> FALSE]

profit_of_cost_less_amount(amount, cost) == cost - amount * 10000

\* profit = transaction_amount - cost, in 1/10000 dollar (the amount in dollars)
profit_less_cost(amount, cost) == amount * 10000 - cost

\* The body of the item loop from total_quantity on, total_amount (dollars)
\* being drawn; k is the next draw.  quantity_unit is 10 (data_processing.py)
\* or 20 (app.py), count_cap 500 or 200.  np.random.randint raises ValueError
\* on an empty range, which only the total_quantity draw can have.
make_record(v, category, item, year, total_amount, k) ==
    LET quantity_unit == IF v = "dp" THEN 10 ELSE 20
        count_cap == IF v = "dp" THEN 500 ELSE 200
        quantity_high == total_amount \div quantity_unit + 1
        total_quantity == randint(10, quantity_high, k)
        transaction_count == randint(5, Min(count_cap, total_quantity + 1), k + 1)
        zero_priced == randint(0, int_fraction(total_quantity, 5) + 1, k + 2)
        disc == adjustment(k + 3, total_amount, total_quantity, 30, 15, 15, 50, -1)
        offered == adjustment(disc.k, total_amount, total_quantity, 70, 10, 5, 20, 1)
        loss == adjustment(offered.k, total_amount, total_quantity, 80, 10, 5, 10, -1)
        returned == adjustment(loss.k, total_amount, total_quantity, 85, 5, 3, 5, -1)
        t_amount == transaction_amount(total_amount, disc.amount, offered.amount,
                                       loss.amount, returned.amount)
        t_quantity == transaction_quantity(total_quantity, zero_priced, disc.quantity,
                                           offered.quantity, loss.quantity,
                                           returned.quantity)
        cd == cost_draw(v, category, returned.k)
        cost == total_amount * cost_factor(category, cd.r)
        profit == profit_less_cost(t_amount, cost)
    IN  IF quantity_high <= 10
          THEN [raised |-> "ValueError", k |-> k, row |-> <<>>]
          ELSE [raised |-> "none", k |-> cd.k,
                row |-> [SKU |-> item,
                         Category |-> category,
                         Total_Amount |-> total_amount,
                         Total_Quantity |-> total_quantity,
                         Total_Transaction_Count |-> transaction_count,
                         Zero_Priced_Count |-> zero_priced,
                         Discounted_Amount |-> disc.amount,
                         Discounted_Quantity |-> disc.quantity,
                         Discounted_Transaction_Count |-> disc.transactions,
                         Offered_Amount |-> offered.amount,
                         Offered_Quantity |-> offered.quantity,
                         Offered_Transaction_Count |-> offered.transactions,
                         Loss_Amount |-> loss.amount,
                         Loss_Quantity |-> loss.quantity,
                         Loss_Transaction_Count |-> loss.transactions,
                         Returned_Amount |-> returned.amount,
                         Returned_Quantity |-> returned.quantity,
                         Returned_Transaction_Count |-> returned.transactions,
                         Transaction_Amount |-> t_amount,
                         Transaction_Quantity |-> t_quantity,
                         Transaction_Count |-> transaction_count,
                         Cost |-> cost,
                         Profit |-> profit,
                         Profit_Margin |-> profit_margin(profit, t_amount),
                         Year |-> year]]

(***************************************************************************)
(* generate_data of src/data_processing.py: the loops.                     *)
(***************************************************************************)
\* for item in items: if random() > 0.3: total_amount = randint(500, 25000); ...
RECURSIVE dp_items(_, _, _, _, _)
\* data.append(rec), and on to the next item; an exception ends the loop
dp_append(category, year, i, data, rec) ==
    IF rec.raised # "none" THEN [raised |-> rec.raised, k |-> rec.k, data |-> data]
    ELSE dp_items(category, year, i + 1, rec.k, Append(data, rec.row))

dp_items(category, year, i, k, data) ==
    IF i > Len(categories(category)) THEN [raised |-> "none", k |-> k, data |-> data]
    ELSE IF ~(random(k) > 30) THEN dp_items(category, year, i + 1, k + 1, data)
    ELSE dp_append(category, year, i, data,
                   make_record("dp", category, categories(category)[i], year,
                               randint(500, 25000, k + 1), k + 2))

\* for category, items in categories.items(): in dict order
RECURSIVE dp_categories(_, _, _, _)
\* r is what the item loop of category c left; on to the next category
dp_next_category(year, c, r) ==
    IF r.raised # "none" THEN r ELSE dp_categories(year, c + 1, r.k, r.data)

dp_categories(year, c, k, data) ==
    IF c > Len(CategoryOrder) THEN [raised |-> "none", k |-> k, data |-> data]
    ELSE dp_next_category(year, c, dp_items(CategoryOrder[c], year, 1, k, data))

(***************************************************************************)
(* generate_data of src/app/app.py: the loops and the scaling step.        *)
(***************************************************************************)
\* valid_items: for item in items: if random() > 0.3: valid_items.append(item)
RECURSIVE valid_items(_, _, _, _)
valid_items(items, i, k, valid) ==
    IF i > Len(items) THEN [k |-> k, valid |-> valid]
    ELSE valid_items(items, i + 1, k + 1,
                     IF random(k) > 30 THEN Append(valid, items[i]) ELSE valid)

\* the item's share of the category total, in hundredths
item_weight(category, item) ==
    IF category = "FOOD" /\ item \in {"NYE TACOS", "SUNCHOKES", "CHARRED BEETS"} THEN 20
    ELSE IF category = "COCKTAILS"
              /\ item \in {"Open Cocktail", "SHOOTER", "COCKTAIL OF THE DAY"} THEN 18
    ELSE IF category = "SPIRITS"
              /\ item \in {"SAZERAC", "MONTENEGRO", "Bourbon", "ESPOLON"} THEN 15
    ELSE 5

\* total_item_weight = sum([item_weight for _ in valid_items]): the weight of
\* the current item, once per valid item
total_item_weight(category, item, valid) == item_weight(category, item) * Len(valid)

\* normalized_weight = item_weight / total_item_weight, as a fraction
normalized_weight(category, item, valid) ==
    <<item_weight(category, item), total_item_weight(category, item, valid)>>

\* total_amount = category_target * normalized_weight * (0.9 + 0.2 * random()),
\* category_target in cents, the result in dollars
app_total_amount(category_target, category, item, valid, k) ==
    LET share == MulDiv(category_target, normalized_weight(category, item, valid)[1],
                        normalized_weight(category, item, valid)[2])
    IN  MulDiv(share, 900 + 2 * random(k), 1000) \div 100

\* for i, item in enumerate(valid_items): ...
RECURSIVE app_items(_, _, _, _, _, _, _)
\* data.append(rec), and on to the next item; an exception ends the loop
app_append(category, year, category_target, valid, i, data, rec) ==
    IF rec.raised # "none" THEN [raised |-> rec.raised, k |-> rec.k, data |-> data]
    ELSE app_items(category, year, category_target, valid, i + 1, rec.k,
                   Append(data, rec.row))

app_items(category, year, category_target, valid, i, k, data) ==
    IF i > Len(valid) THEN [raised |-> "none", k |-> k, data |-> data]
    ELSE app_append(category, year, category_target, valid, i, data,
                    make_record("app", category, valid[i], year,
                                app_total_amount(category_target, category, valid[i], valid, k),
                                k + 1))

\* for category, items in categories.items(): category_target, valid_items, rows
RECURSIVE app_categories(_, _, _, _, _)
\* r is what the item loop of category c left; on to the next category
app_next_category(year, target_total_sales, c, r) ==
    IF r.raised # "none" THEN r
    ELSE app_categories(year, target_total_sales, c + 1, r.k, r.data)

\* the item loop of a category over its valid items v
app_category_items(category, year, category_target, v, data) ==
    app_items(category, year, category_target, v.valid, 1, v.k, data)

app_categories(year, target_total_sales, c, k, data) ==
    IF c > Len(CategoryOrder) THEN [raised |-> "none", k |-> k, data |-> data]
    ELSE app_next_category(year, target_total_sales, c,
            app_category_items(CategoryOrder[c], year,
                MulDiv(target_total_sales, category_weights(CategoryOrder[c]), 1000),
                valid_items(categories(CategoryOrder[c]), 1, k, <<>>), data))

RECURSIVE SumColumn(_, _)
SumColumn(rows, col) ==
    IF rows = <<>> THEN 0 ELSE rows[1][col] + SumColumn(Tail(rows), col)

columns_to_scale_without_offered ==
    {"Total_Amount", "Discounted_Amount", "Loss_Amount", "Returned_Amount",
     "Transaction_Amount", "Cost", "Profit"}

\* the columns multiplied by scaling_factor
columns_to_scale ==
    {"Total_Amount", "Discounted_Amount", "Offered_Amount", "Loss_Amount",
     "Returned_Amount", "Transaction_Amount", "Cost", "Profit"}

\* A table (DataFrame): its rows, whether it has the record's columns
\* (pd.DataFrame of an empty list has none), the columns that carry the
\* scaling factor, and the factor num / den (target_total_sales over
\* current_total, both in cents).
Table(rows, columns, scaled, num, den) ==
    [rows |-> rows, columns |-> columns, scaled |-> scaled,
     scaling_factor |-> <<num, den>>]

\* pd.DataFrame(): no row, no column
EmptyDataFrame == Table(<<>>, FALSE, {}, 1, 1)

recalculated_margin_of_cost(row, scaled) ==
    [n |-> row.Cost, d |-> row.Transaction_Amount * 100,
     ns |-> "Cost" \in scaled, ds |-> "Transaction_Amount" \in scaled]

\* df['Profit Margin'] = df['Profit'] / df['Transaction Amount'] * 100 on the scaled columns
recalculated_margin(row, scaled) ==
    [n |-> row.Profit, d |-> row.Transaction_Amount * 100,
     ns |-> "Profit" \in scaled, ds |-> "Transaction_Amount" \in scaled]

\* df = pd.DataFrame(data); current_total; scaling_factor; the scaling loop;
\* the margin recalculation.  A table built from no record has no column, and
\* df['Transaction Amount'] raises KeyError.
scale(data, target_total_sales) ==
    LET current_total == SumColumn(data, "Transaction_Amount")
        rows == [i \in 1..Len(data) |->
                    [data[i] EXCEPT !.Profit_Margin =
                        recalculated_margin(data[i], columns_to_scale)]]
    IN  IF data = <<>>
          THEN [raised |-> "KeyError", df |-> EmptyDataFrame]
          ELSE [raised |-> "none",
                df |-> Table(rows, TRUE, columns_to_scale, target_total_sales,
                             current_total * 100)]

(***************************************************************************)
(* generate_data(option), started in random state `state`.                 *)
(***************************************************************************)
\* what the call gives once the loops are through: the exception raised, or
\* pd.DataFrame(data) (data_processing.py), or the scaled table (app.py)
return_df(v, target_total_sales, loop) ==
    IF loop.raised # "none"
      THEN [raised |-> loop.raised, rng |-> loop.k % Period, df |-> EmptyDataFrame]
    ELSE IF v = "dp"
      THEN [raised |-> "none", rng |-> loop.k % Period,
            df |-> Table(loop.data, loop.data # <<>>, {}, 1, 1)]
    ELSE [raised |-> scale(loop.data, target_total_sales).raised,
          rng |-> loop.k % Period,
          df |-> scale(loop.data, target_total_sales).df]

generate_data(v, option, state) ==
    return_df(v, period(option).target_total_sales,
              IF v = "dp"
                THEN dp_categories(period(option).year, 1,
                                   np_random_seed(period(option).seed, state), <<>>)
                ELSE app_categories(period(option).year, period(option).target_total_sales,
                                    1, np_random_seed(period(option).seed, state), <<>>))

(***************************************************************************)
(* The generator as a state machine: calls of generate_data.               *)
(***************************************************************************)
\* the dashboard script is not running
NotRendering ==
    [pc |-> "off", data_option |-> "none", analysis_type |-> "none", pending |-> <<>>,
     assigned |-> {}]

\* nothing loaded, filtered or viewed
ViewIdle ==
    /\ render = NotRendering
    /\ input = EmptyDataFrame
    /\ df = EmptyDataFrame
    /\ category_filter = {"All"}
    /\ applied = <<>>
    /\ df_once = EmptyDataFrame
    /\ view = <<>>
    /\ loaded = <<>>

Init ==
    /\ gen \in [1..Period -> {0, 1}]
    /\ rng \in 0..(Period - 1)
    /\ variant \in {"dp", "app"}
    /\ history = <<>>
    /\ ViewIdle

\* the call's result is recorded; the random source is left where the call left it
Called(option, result) ==
    /\ history' = Append(history, [option |-> option, result |-> result])
    /\ rng' = result.rng

GenerateData(option) ==
    /\ Len(history) < MaxCalls
    /\ Called(option, generate_data(variant, option, rng))
    /\ UNCHANGED <<gen, variant, input, df, category_filter, applied, df_once, view, loaded, render>>

Next == \E option \in Options : GenerateData(option)

Spec == Init /\ [][Next]_vars

(***************************************************************************)
(* Tables handed to the filter and the views.  The views take any table    *)
(* with the record's columns (a generated one, or one load_data read from  *)
(* a CSV file): the first rows of a fixed pool, or the DataFrame without   *)
(* columns.  A CSV row without a category has Category NaN.                *)
(***************************************************************************)
NaN == "NaN"

PoolCategory(k) == IF k % 7 = 5 THEN NaN ELSE <<"BEER", "FOOD", "WINE">>[(k % 3) + 1]

PoolRow(k) ==
    LET amount == ((k * 7 + 2) % 23) * 10
        cost == (amount \div 10) * (3 + (k % 4)) * 10000
        profit == amount * 10000 - cost
        count == k % 3
    IN  [SKU |-> k,
         Category |-> PoolCategory(k),
         Transaction_Amount |-> amount,
         Transaction_Quantity |-> 2 * count + (k % 2),
         Transaction_Count |-> count,
         Cost |-> cost,
         Profit |-> profit,
         Profit_Margin |-> profit_margin(profit, amount),
         Year |-> "2023"]

InputTables ==
    {Table([k \in 1..n |-> PoolRow(k)], TRUE, {}, 1, 1) : n \in 0..MaxRows}
        \cup {EmptyDataFrame}

\* the sidebar's multiselect: "All" and the seven categories
FilterOptions == {"All"} \cup all_categories

Selections == {sel \in SUBSET FilterOptions : Cardinality(sel) <= MaxSelected}

(***************************************************************************)
(* The category filter.                                                    *)
(***************************************************************************)
isin_rows_but_last(rows, selection) ==
    LET kept == SelectSeq(rows, LAMBDA row : row.Category # NaN /\ row.Category \in selection)
    IN  SubSeq(kept, 1, Len(kept) - 1)

\* df[df['Category'].isin(categories)]: a missing Category is in no selection
isin_rows(rows, selection) ==
    SelectSeq(rows, LAMBDA row : row.Category # NaN /\ row.Category \in selection)

\* filter_data(df, categories): filters when categories is not None, not
\* empty and without 'All'; df['Category'] raises KeyError without the column
filter_data(t, selection) ==
    IF selection # {} /\ "All" \notin selection
      THEN IF ~t.columns THEN [raised |-> "KeyError", df |-> t]
           ELSE [raised |-> "none",
                 df |-> [t EXCEPT !.rows = isin_rows(t.rows, selection)]]
      ELSE [raised |-> "none", df |-> t]

inline_filter_always(t, selection) ==
    IF ~t.columns THEN [raised |-> "KeyError", df |-> t]
    ELSE [raised |-> "none", df |-> [t EXCEPT !.rows = isin_rows(t.rows, selection)]]

\* app.py: if "All" not in category_filter: df = df[df['Category'].isin(category_filter)]
inline_filter(t, selection) ==
    IF "All" \notin selection
      THEN IF ~t.columns THEN [raised |-> "KeyError", df |-> t]
           ELSE [raised |-> "none",
                 df |-> [t EXCEPT !.rows = isin_rows(t.rows, selection)]]
      ELSE [raised |-> "none", df |-> t]

apply_filter(kind, t, selection) ==
    IF kind = "filter_data" THEN filter_data(t, selection) ELSE inline_filter(t, selection)

(***************************************************************************)
(* Group-by and the views.                                                 *)
(***************************************************************************)
\* the group keys of df.groupby('Category'): the categories present; rows
\* whose Category is missing belong to no group (dropna)
group_keys(rows) == {rows[i].Category : i \in 1..Len(rows)} \ {NaN}

group_rows(rows, category) == SelectSeq(rows, LAMBDA row : row.Category = category)

\* aggregate_data(df, 'Category', {'Transaction Amount': 'sum'}) and the
\* groupby(...).agg(...) of the views: one row per group, the column summed
aggregate_data(t, col) ==
    IF ~t.columns THEN [kind |-> "aggregate", raised |-> "KeyError", groups |-> <<>>]
    ELSE [kind |-> "aggregate", raised |-> "none",
          groups |-> [c \in group_keys(t.rows) |-> SumColumn(group_rows(t.rows, c), col)]]

\* a / b of two floats as a fraction; x / 0 is nan or inf, not an exception
divide(a, b) == IF b = 0 THEN (IF a = 0 THEN "nan" ELSE "inf") ELSE <<a, b>>

\* create_metrics_row(df): the five cards.  profit_margin and avg_order are
\* the guarded quotients ("... if sum > 0 else 0"), kept as fractions;
\* Profit is in 1/10000 dollar, so the margin in percent is profit / (revenue * 100).
create_metrics_row(t) ==
    LET revenue == SumColumn(t.rows, "Transaction_Amount")
        profit == SumColumn(t.rows, "Profit")
        orders == SumColumn(t.rows, "Transaction_Count")
    IN  IF ~t.columns THEN [kind |-> "metrics", raised |-> "KeyError"]
        ELSE [kind |-> "metrics", raised |-> "none",
              total_revenue |-> revenue, total_profit |-> profit, total_orders |-> orders,
              profit_margin |-> IF revenue > 0 THEN divide(profit, revenue * 100) ELSE 0,
              avg_order |-> IF orders > 0 THEN divide(revenue, orders) ELSE 0]

\* round(a / b, 0) to the nearest integer, halves to the even one (b > 0)
RoundDiv(a, b) ==
    LET q == a \div b
        r == a % b
    IN  IF 2 * r < b THEN q
        ELSE IF 2 * r > b THEN q + 1
        ELSE IF q % 2 = 0 THEN q ELSE q + 1

\* (part / whole * 100).round(1), in tenths of a percent
share(part, whole) ==
    IF whole = 0 THEN (IF part = 0 THEN "nan" ELSE "inf")
    ELSE IF whole < 0 THEN RoundDiv(-part * 1000, -whole)
    ELSE RoundDiv(part * 1000, whole)

revenue_share_floor(part, whole) ==
    IF whole = 0 THEN (IF part = 0 THEN "nan" ELSE "inf") ELSE (part * 1000) \div whole

\* Revenue Share = (category Transaction Amount / df['Transaction Amount'].sum() * 100).round(1)
revenue_share(part, whole) == share(part, whole)

\* (a / b * units) rounded to an integer, as pandas computes it on floats:
\* x / 0 is nan (x = 0) or inf, not an exception, and round keeps it
quotient(a, b, units) ==
    IF b = 0 THEN [finite |-> FALSE, value |-> IF a = 0 THEN "nan" ELSE "inf"]
    ELSE [finite |-> TRUE, value |-> RoundDiv(a * units, b)]

\* create_category_breakdown(df): per category the sums, Profit Margin
\* (Profit / Transaction Amount * 100).round(1) in tenths of a percent, and
\* the Avg Order Value of the listing, Transaction Amount / Transaction Count
\* to two decimals, in cents (Profit in units of 1/100 dollar)
create_category_breakdown(t) ==
    IF ~t.columns THEN [kind |-> "category_breakdown", raised |-> "KeyError"]
    ELSE [kind |-> "category_breakdown", raised |-> "none",
          groups |-> [c \in group_keys(t.rows) |->
            LET rows == group_rows(t.rows, c)
                revenue == SumColumn(rows, "Transaction_Amount")
                profit == SumColumn(rows, "Profit") \div 100
                orders == SumColumn(rows, "Transaction_Count")
            IN  [Transaction_Amount |-> revenue,
                 Transaction_Count |-> orders,
                 Profit |-> profit,
                 Cost |-> SumColumn(rows, "Cost"),
                 Profit_Margin |-> quotient(profit, revenue * 100, 1000),
                 Avg_Order_Value |-> quotient(revenue, orders, 100)]]]

\* create_category_performance(df): per category the sums, the derived
\* ratios (Profit Margin in tenths of a percent, Avg Order Value and Revenue
\* Per Item in cents, Avg Items Per Order in hundredths), Revenue Share and
\* Profit Share (Profit in units of 1/100 dollar here, to keep the products small)
create_category_performance(t) ==
    LET total_revenue == SumColumn(t.rows, "Transaction_Amount")
        total_profit == SumColumn(t.rows, "Profit") \div 100
    IN  IF ~t.columns THEN [kind |-> "category_performance", raised |-> "KeyError"]
        ELSE [kind |-> "category_performance", raised |-> "none",
              groups |-> [c \in group_keys(t.rows) |->
                LET rows == group_rows(t.rows, c)
                    revenue == SumColumn(rows, "Transaction_Amount")
                    profit == SumColumn(rows, "Profit") \div 100
                    orders == SumColumn(rows, "Transaction_Count")
                    items == SumColumn(rows, "Transaction_Quantity")
                IN  [Transaction_Amount |-> revenue,
                     Transaction_Count |-> orders,
                     Transaction_Quantity |-> items,
                     Profit |-> profit,
                     Profit_Margin |-> quotient(profit, revenue * 100, 1000),
                     Avg_Order_Value |-> quotient(revenue, orders, 100),
                     Avg_Items_Per_Order |-> quotient(items, orders, 100),
                     Revenue_Per_Item |-> quotient(revenue, items, 100),
                     Revenue_Share |-> revenue_share(revenue, total_revenue),
                     Profit_Share |-> share(profit, total_profit)]]]

(***************************************************************************)
(* Product performance: sort by the selected metric, keep the first ten.   *)
(***************************************************************************)
TopN == 10

MetricSorts ==
    {"Most Sales", "Least Sales", "Most Profit", "Least Profit",
     "Highest Margin", "Lowest Margin", "Most Orders", "Least Orders"}

\* the column each option sorts by
metric(metric_sort) ==
    IF metric_sort \in {"Most Sales", "Least Sales"} THEN "Transaction_Amount"
    ELSE IF metric_sort \in {"Most Profit", "Least Profit"} THEN "Profit"
    ELSE IF metric_sort \in {"Highest Margin", "Lowest Margin"} THEN "Profit_Margin"
    ELSE "Transaction_Count"

ascending_never(metric_sort) == FALSE

\* the ascending= argument of sort_values for each option
ascending(metric_sort) ==
    metric_sort \in {"Least Sales", "Least Profit", "Lowest Margin", "Least Orders"}

\* a / b < c / d for b, d > 0, by the integer parts and then the remainders
RECURSIVE RatLess(_, _, _, _)
RatLess(a, b, c, d) ==
    LET q1 == a \div b
        q2 == c \div d
        r1 == a % b
        r2 == c % d
    IN  IF q1 # q2 THEN q1 < q2
        ELSE IF r2 = 0 THEN FALSE
        ELSE IF r1 = 0 THEN TRUE
        ELSE RatLess(d, r2, b, r1)

\* the value of a row in the sort column, as a fraction
sort_key(row, col) ==
    IF col = "Profit_Margin" THEN <<row[col].n, row[col].d>> ELSE <<row[col], 1>>

KeyLess(x, y) == RatLess(x[1], x[2], y[1], y[2])

\* df.sort_values(col, ascending=...): the rows ordered by the column.  The
\* default sort kind is not stable, so the order of rows with equal values is
\* not fixed: tie = "stable" keeps their table order, "reversed" reverses it.
sort_values(rows, col, asc, tie) ==
    LET n == Len(rows)
        key(i) == sort_key(rows[i], col)
        first(i, j) ==
            \/ IF asc THEN KeyLess(key(i), key(j)) ELSE KeyLess(key(j), key(i))
            \/ /\ ~KeyLess(key(i), key(j))
               /\ ~KeyLess(key(j), key(i))
               /\ IF tie = "stable" THEN i < j ELSE j < i
        rank == [i \in 1..n |-> Cardinality({j \in 1..n : first(j, i)}) + 1]
    IN  [p \in 1..n |-> rows[CHOOSE i \in 1..n : rank[i] = p]]

head_after_first(rows, n) == SubSeq(rows, 2, Min(n + 1, Len(rows)))

\* df.head(n): the first n rows, or all of them if there are fewer
head(rows, n) == SubSeq(rows, 1, Min(n, Len(rows)))

\* create_product_performance(df, metric_sort): df_sorted, the table the
\* chart and the listing show
create_product_performance(t, metric_sort, tie) ==
    IF ~t.columns THEN [raised |-> "KeyError", metric_sort |-> metric_sort, df_sorted |-> <<>>]
    ELSE [raised |-> "none", metric_sort |-> metric_sort,
          df_sorted |-> head(sort_values(t.rows, metric(metric_sort),
                                         ascending(metric_sort), tie), TopN)]

(***************************************************************************)
(* The dashboard on a loaded table: filter, then one view.                 *)
(***************************************************************************)
GeneratorIdle ==
    /\ gen = [i \in 1..Period |-> 0]
    /\ rng = 0
    /\ variant = "app"
    /\ history = <<>>
    /\ loaded = <<>>

InitView ==
    /\ GeneratorIdle
    /\ render = NotRendering
    /\ input \in InputTables
    /\ df = input
    /\ df_once = input
    /\ category_filter = {"All"}
    /\ applied = <<>>
    /\ view = <<>>

Filter(kind, selection) ==
    /\ applied = <<>>
    /\ view = <<>>
    /\ LET result == apply_filter(kind, input, selection)
       IN  /\ applied' = <<[kind |-> kind, raised |-> result.raised]>>
           /\ df' = result.df
           /\ df_once' = result.df
    /\ category_filter' = selection
    /\ UNCHANGED <<gen, rng, variant, history, input, view, loaded, render>>

FilterData(selection) == Filter("filter_data", selection)

InlineFilter(selection) == Filter("inline", selection)

\* the filter applied once more, to the filtered table, with the same selection
FilterAgain ==
    /\ Len(applied) = 1
    /\ applied[1].raised = "none"
    /\ view = <<>>
    /\ LET result == apply_filter(applied[1].kind, df, category_filter)
       IN  /\ applied' = Append(applied, [kind |-> applied[1].kind, raised |-> result.raised])
           /\ df' = result.df
    /\ UNCHANGED <<gen, rng, variant, history, input, category_filter, df_once, view, loaded, render>>

\* a view runs on the table the filter left, if the filter did not raise
Show(result) ==
    /\ view = <<>>
    /\ \A i \in 1..Len(applied) : applied[i].raised = "none"
    /\ view' = <<result>>
    /\ UNCHANGED <<gen, rng, variant, history, input, df, category_filter, applied, df_once,
                 loaded, render>>

CreateMetricsRow == Show(create_metrics_row(df))

AggregateData == Show(aggregate_data(df, "Transaction_Amount"))

CreateCategoryPerformance == Show(create_category_performance(df))

CreateCategoryBreakdown == Show(create_category_breakdown(df))

NextView ==
    \/ \E selection \in Selections : FilterData(selection)
    \/ \E selection \in Selections : InlineFilter(selection)
    \/ FilterAgain
    \/ CreateMetricsRow
    \/ AggregateData
    \/ CreateCategoryPerformance
    \/ CreateCategoryBreakdown

SpecView == InitView /\ [][NextView]_vars

(***************************************************************************)
(* The product performance view, shown for one option and then another.    *)
(***************************************************************************)
InitProduct ==
    /\ GeneratorIdle
    /\ render = NotRendering
    /\ input \in InputTables
    /\ df = input
    /\ df_once = input
    /\ category_filter = {"All"}
    /\ applied = <<>>
    /\ view = <<>>

CreateProductPerformance(metric_sort, tie) ==
    /\ Len(view) < 2
    /\ view' = Append(view, create_product_performance(df, metric_sort, tie))
    /\ UNCHANGED <<gen, rng, variant, history, input, df, category_filter, applied, df_once,
                 loaded, render>>

NextProduct ==
    \E metric_sort \in MetricSorts, tie \in {"stable", "reversed"} :
        CreateProductPerformance(metric_sort, tie)

SpecProduct == InitProduct /\ [][NextProduct]_vars

(***************************************************************************)
(* load_data: a CSV file read into a table, then filtered and summarised.  *)
(***************************************************************************)
\* The files load_data can be given: no file at the path, a file read_csv
\* cannot parse, or a CSV file of the record's columns with n rows, with or
\* without a Profit column.
Files ==
    {[kind |-> "missing", n |-> 0, profit |-> FALSE],
     [kind |-> "malformed", n |-> 0, profit |-> FALSE]}
        \cup {[kind |-> "csv", n |-> n, profit |-> b] : n \in 0..MaxRows, b \in BOOLEAN}

\* the row k of a CSV file; without the Profit column the row has no Profit
csv_row(k, profit) ==
    IF profit THEN PoolRow(k)
    ELSE [f \in (DOMAIN PoolRow(k)) \ {"Profit"} |-> PoolRow(k)[f]]

\* pd.read_csv(file_path): the table, or the exception raised
read_csv(file) ==
    IF file.kind = "missing" THEN [raised |-> "FileNotFoundError", rows |-> <<>>]
    ELSE IF file.kind = "malformed" THEN [raised |-> "ParserError", rows |-> <<>>]
    ELSE [raised |-> "none", rows |-> [k \in 1..file.n |-> csv_row(k, file.profit)]]

\* if 'Profit' not in df.columns and 'Cost' in df.columns and
\* 'Transaction Amount' in df.columns: df['Profit'] = df['Transaction Amount'] - df['Cost']
\* (Cost and Profit in 1/10000 dollar, Transaction Amount in dollars)
add_profit(row) ==
    IF "Profit" \in DOMAIN row THEN row
    ELSE [f \in (DOMAIN row) \cup {"Profit"} |->
            IF f = "Profit" THEN row.Transaction_Amount * 10000 - row.Cost ELSE row[f]]

\* load_data without its try / except: the exception of read_csv escapes
load_data_uncaught(file) ==
    [raised |-> read_csv(file).raised,
     message |-> "",
     df |-> IF read_csv(file).raised # "none" THEN EmptyDataFrame
            ELSE Table([k \in 1..Len(read_csv(file).rows) |-> add_profit(read_csv(file).rows[k])],
                       TRUE, {}, 1, 1)]

\* load_data(file_path): try: read_csv, to_numeric (the numeric columns hold
\* numbers already), add Profit, return df; except Exception: print the
\* message, return pd.DataFrame()
load_data(file) ==
    IF read_csv(file).raised # "none"
      THEN [raised |-> "none",
            message |-> "Error loading data: " \o read_csv(file).raised,
            df |-> EmptyDataFrame]
      ELSE [raised |-> "none",
            message |-> "",
            df |-> Table([k \in 1..Len(read_csv(file).rows) |-> add_profit(read_csv(file).rows[k])],
                         TRUE, {}, 1, 1)]

InitLoad ==
    /\ GeneratorIdle
    /\ ViewIdle

\* the outcome of the call is kept; the table it returned is the input of the filter
Loaded(file, result) ==
    /\ loaded' = <<[file |-> file, raised |-> result.raised, message |-> result.message]>>
    /\ input' = result.df
    /\ df' = result.df
    /\ df_once' = result.df

LoadData(file) ==
    /\ loaded = <<>>
    /\ Loaded(file, load_data(file))
    /\ UNCHANGED <<gen, rng, variant, history, category_filter, applied, view, render>>

\* the steps after the load happen if load_data returned
LoadReturned == loaded # <<>> /\ loaded[1].raised = "none"

NextLoad ==
    \/ \E file \in Files : LoadData(file)
    \/ \E selection \in Selections : LoadReturned /\ FilterData(selection)
    \/ LoadReturned /\ CreateMetricsRow

SpecLoad == InitLoad /\ [][NextLoad]_vars

(***************************************************************************)
(* The dashboard script (app.py, its main part): the tables are generated  *)
(* and combined, the category filter is applied, the views of the selected *)
(* analysis type run.  The sidebar's values are read where the script uses *)
(* them.                                                                   *)
(***************************************************************************)
DataOptions == Options \cup {"All Time Comparison"}

AnalysisTypes ==
    {"Overview", "Sales Analysis", "Profitability Analysis", "Category Performance",
     "Product Performance"}

\* the multiselect's values tried on a render
SidebarSelections == {sel \in Selections : sel \subseteq {"All", "FOOD", "SPIRITS"}}

\* the calls of generate_data that load the data option, in order
load_calls(data_option) ==
    IF data_option = "All Time Comparison"
      THEN <<"2023 Full Year", "2024 Full Year", "2025 (up to March 5)">>
      ELSE <<data_option>>

RECURSIVE concat_rows(_)
concat_rows(tables) ==
    IF tables = <<>> THEN <<>> ELSE Head(tables).rows \o concat_rows(Tail(tables))

\* pd.concat([df_2023, df_2024, df_2025]): the rows of the parts, one part
\* after the other; the rows of a part carry the part's scaling factor,
\* kept here per Year
concat(tables) ==
    [rows |-> concat_rows(tables),
     columns |-> \E i \in 1..Len(tables) : tables[i].columns,
     scaled |-> UNION {tables[i].scaled : i \in 1..Len(tables)},
     scaling_factor |->
        [year \in {period(option).year : option \in Options} |->
            LET part == {i \in 1..Len(tables) :
                            \E j \in 1..Len(tables[i].rows) : tables[i].rows[j].Year = year}
            IN  IF part = {} THEN <<1, 1>>
                ELSE tables[CHOOSE i \in part : TRUE].scaling_factor]]

\* the table the script binds to df after loading
loaded_df(data_option, tables) ==
    IF data_option = "All Time Comparison" THEN concat(tables) ELSE tables[1]

dispatch_overview_only(analysis_type) ==
    <<"create_metrics_row", "create_category_breakdown", "create_product_performance">>

\* the if / elif chain on analysis_type: the views called, in order
dispatch(analysis_type) ==
    IF analysis_type = "Overview"
      THEN <<"create_metrics_row", "create_category_breakdown", "create_product_performance">>
    ELSE IF analysis_type = "Sales Analysis" THEN <<"create_sales_analysis">>
    ELSE IF analysis_type = "Profitability Analysis" THEN <<"create_profitability_analysis">>
    ELSE IF analysis_type = "Category Performance" THEN <<"create_category_performance">>
    ELSE IF analysis_type = "Product Performance" THEN <<"create_product_performance">>
    ELSE <<>>

copy_is_the_same_object(source, name) == source

\* source.copy(), bound to name: a new DataFrame object, which shares nothing
\* with the source
copy(source, name) == name

\* a frame derived from source (groupby(...).agg(...).reset_index(),
\* sort_values(...), head(...), df[mask]), bound to name: a new object
derived(source, name) == name

\* the column assignments frame[column] = ... a view makes, as
\* <<object assigned to, column>>; "df" is the table the view was given
assignments(kind) ==
    IF kind = "create_category_breakdown"
      THEN {<<derived("df", "category_sales"), "Profit Margin">>}
           \cup {<<copy(derived("df", "category_sales"), "display_df"), column>> :
                    column \in {"Revenue", "Profit", "Margin", "Orders", "Avg Order Value"}}
    ELSE IF kind = "create_category_performance"
      THEN {<<derived("df", "category_performance"), column>> :
                column \in {"Profit Margin", "Avg Order Value", "Avg Items Per Order",
                            "Revenue Per Item", "Revenue Share", "Profit Share"}}
           \cup {<<copy(derived("df", "category_performance"), "display_df"), column>> :
                    column \in {"Revenue", "Profit", "Margin", "Orders", "Items", "Products",
                                "Avg Order", "Rev/Item", "Rev Share", "Profit Share"}}
    ELSE IF kind = "create_product_performance"
      THEN {<<copy(derived("df", "df_sorted"), "display_df"), column>> :
                column \in {"Revenue", "Profit", "Margin", "Orders", "Avg Order Value"}}
           \cup {<<copy(derived("df", "top_by_category"), "top_category_df"), column>> :
                    column \in {"Revenue", "Profit", "Margin"}}
    ELSE IF kind = "create_profitability_analysis"
      THEN {<<derived("df", "category_margins"), "Overall Margin">>}
           \cup {<<copy(derived("df", "category_margins"), "display_df"), column>> :
                    column \in {"Avg Margin", "Min Margin", "Max Margin", "Margin StdDev",
                                "Overall Margin", "Revenue", "Profit"}}
           \cup {<<copy(derived("df", "high_margin_products"), "display_df"), column>> :
                    column \in {"Revenue", "Profit", "Margin"}}
           \cup {<<copy(derived("df", "low_margin_products"), "display_df"), column>> :
                    column \in {"Revenue", "Profit", "Margin"}}
    ELSE IF kind = "create_sales_analysis"
      THEN {<<derived("df", "category_sales"), column>> :
                column \in {"Sales Percentage", "Normalized Revenue", "Normalized Quantity",
                            "Normalized Orders"}}
           \cup {<<copy("df", "df_copy"), "Revenue Label">>}
    ELSE {}

\* the columns a view assigns in the table it was given
assigned_to_df(kind) == {a[2] : a \in {b \in assignments(kind) : b[1] = "df"}}

\* the views that take metric_sort
takes_metric_sort(kind) == kind = "create_product_performance"

InitRender ==
    /\ gen \in [1..Period -> {0, 1}]
    /\ rng = 0
    /\ variant = "app"
    /\ history = <<>>
    /\ input = EmptyDataFrame
    /\ df = EmptyDataFrame
    /\ df_once = EmptyDataFrame
    /\ category_filter = {"All"}
    /\ applied = <<>>
    /\ view = <<>>
    /\ loaded = <<>>
    /\ render = [NotRendering EXCEPT !.pc = "start"]

\* if data_option == "All Time Comparison": ... else: ...
StartLoad(data_option) ==
    /\ render.pc = "start"
    /\ render' = [render EXCEPT !.pc = "load", !.data_option = data_option,
                                !.pending = load_calls(data_option)]
    /\ UNCHANGED <<gen, rng, variant, history, input, df, category_filter, applied, df_once,
                   view, loaded>>

\* where the script is after a call of generate_data: an exception ends the run
AfterCall(result) ==
    render' = [render EXCEPT !.pc = IF result.raised = "none" THEN "load" ELSE "raised",
                             !.pending = Tail(render.pending)]

\* the next call of generate_data
LoadNext ==
    /\ render.pc = "load"
    /\ render.pending # <<>>
    /\ Called(Head(render.pending), generate_data(variant, Head(render.pending), rng))
    /\ AfterCall(history'[Len(history')].result)
    /\ UNCHANGED <<gen, variant, input, df, category_filter, applied, df_once, view, loaded>>

\* df = pd.concat([...]), or df = the one table
Combine ==
    /\ render.pc = "load"
    /\ render.pending = <<>>
    /\ input' = loaded_df(render.data_option,
                          [i \in 1..Len(history) |-> history[i].result.df])
    /\ df' = input'
    /\ df_once' = input'
    /\ render' = [render EXCEPT !.pc = "filter"]
    /\ UNCHANGED <<gen, rng, variant, history, category_filter, applied, view, loaded>>

\* if "All" not in category_filter: df = df[df['Category'].isin(category_filter)]
ApplyCategoryFilter(selection) ==
    /\ render.pc = "filter"
    /\ category_filter' = selection
    /\ applied' = <<[kind |-> "inline", raised |-> inline_filter(df, selection).raised]>>
    /\ df' = inline_filter(df, selection).df
    /\ df_once' = df'
    /\ render' = [render EXCEPT !.pc = IF inline_filter(df, selection).raised = "none"
                                         THEN "dispatch" ELSE "raised"]
    /\ UNCHANGED <<gen, rng, variant, history, input, view, loaded>>

\* the branch on analysis_type
Dispatch(analysis_type) ==
    /\ render.pc = "dispatch"
    /\ render' = [render EXCEPT !.pc = "views", !.analysis_type = analysis_type,
                                !.pending = dispatch(analysis_type)]
    /\ UNCHANGED <<gen, rng, variant, history, input, df, category_filter, applied, df_once,
                   view, loaded>>

\* the next view of the branch runs on df; after the last one the script ends
RunView(metric_sort) ==
    /\ render.pc = "views"
    /\ render.pending # <<>>
    /\ view' = Append(view, [kind |-> Head(render.pending), df |-> df,
                             assigned |-> render.assigned,
                             metric_sort |-> IF takes_metric_sort(Head(render.pending))
                                               THEN metric_sort ELSE "none"])
    /\ render' = [render EXCEPT
                    !.pc = IF Tail(render.pending) = <<>> THEN "done" ELSE "views",
                    !.pending = Tail(render.pending),
                    !.assigned = render.assigned \cup assigned_to_df(Head(render.pending))]
    /\ UNCHANGED <<gen, rng, variant, history, input, df, category_filter, applied, df_once,
                   loaded>>

NextRender ==
    \/ \E data_option \in DataOptions : StartLoad(data_option)
    \/ LoadNext
    \/ Combine
    \/ \E selection \in SidebarSelections : ApplyCategoryFilter(selection)
    \/ \E analysis_type \in AnalysisTypes : Dispatch(analysis_type)
    \/ \E metric_sort \in MetricSorts : RunView(metric_sort)

SpecRender == InitRender /\ [][NextRender]_vars

(***************************************************************************)
(* generate_data called with an option that is neither the 2023 nor the    *)
(* 2024 string: the else branch.                                           *)
(***************************************************************************)
\* options the if / elif does not name, besides the 2025 string
OtherOptions == {"All Time Comparison", "2022 Full Year", ""}

\* one call with an option of the else branch
GenerateOther(option) ==
    /\ history = <<>>
    /\ Called(option, generate_data(variant, option, rng))
    /\ UNCHANGED <<gen, variant, input, df, category_filter, applied, df_once, view, loaded,
                   render>>

NextOther ==
    \E option \in OtherOptions \cup {"2025 (up to March 5)"} : GenerateOther(option)

SpecOther == Init /\ [][NextOther]_vars

(***************************************************************************)
(* Properties of the generated tables.                                     *)
(***************************************************************************)
\* the tables the calls made so far returned (a call that raised returns none)
Returned ==
    {history[i].result.df : i \in {j \in 1..Len(history) : history[j].result.raised = "none"}}

RowsOf(t) == {t.rows[i] : i \in 1..Len(t.rows)}

\* The value of a column of a row as a linear form <<a, b>> = a * scaling_factor + b
Val(t, row, col) == IF col \in t.scaled THEN <<row[col], 0>> ELSE <<0, row[col]>>

LinAdd(x, y) == <<x[1] + y[1], x[2] + y[2]>>

\* x = y as values, for the factor f = <<num, den>>: (x[1] - y[1]) * num / den = y[2] - x[2]
LinEq(x, y, f) ==
    IF x[1] = y[1] THEN x[2] = y[2]
    ELSE y[2] # x[2] /\ RatEq(y[2] - x[2], x[1] - y[1], f[1], f[2])

\* C1: every record of every table generate_data returns (either variant, any
\* period, any random stream) has Transaction Quantity >= 0.
C1_TransactionQuantityNonNegative ==
    \A t \in Returned : \A row \in RowsOf(t) : row.Transaction_Quantity >= 0

\* a returned table has a record whose five deducted quantities are all taken
\* off its Total Quantity
C1_Witness ==
    \E t \in Returned : \E row \in RowsOf(t) :
        /\ row.Zero_Priced_Count > 0 /\ row.Discounted_Quantity > 0
        /\ row.Offered_Quantity > 0 /\ row.Loss_Quantity > 0
        /\ row.Returned_Quantity > 0
        /\ row.Transaction_Quantity < row.Total_Quantity

\* C2: in every record of every returned table, Transaction Amount = Total
\* Amount + Discounted + Offered + Loss + Returned Amount; in the app.py variant
\* the values compared are the scaled ones.
C2_TransactionAmountIdentity ==
    \A t \in Returned : \A row \in RowsOf(t) :
        LinEq(Val(t, row, "Transaction_Amount"),
              LinAdd(Val(t, row, "Total_Amount"),
                LinAdd(Val(t, row, "Discounted_Amount"),
                  LinAdd(Val(t, row, "Offered_Amount"),
                    LinAdd(Val(t, row, "Loss_Amount"), Val(t, row, "Returned_Amount"))))),
              t.scaling_factor)

\* app.py returned a scaled table (factor other than 1) with a record that
\* has all four adjustment amounts set
C2_Witness ==
    /\ variant = "app"
    /\ \E t \in Returned :
        /\ t.scaled = columns_to_scale
        /\ t.scaling_factor[1] # t.scaling_factor[2]
        /\ \E row \in RowsOf(t) :
            /\ row.Discounted_Amount # 0 /\ row.Offered_Amount # 0
            /\ row.Loss_Amount # 0 /\ row.Returned_Amount # 0

\* C3 (as claimed): in every record of every returned table each of the four
\* adjustment amounts is <= 0.  The scaling factor is positive, so the sign of
\* a scaled amount is the sign of the amount.
C3_AdjustmentAmountsNonPositive ==
    \A t \in Returned : \A row \in RowsOf(t) :
        /\ row.Discounted_Amount <= 0
        /\ row.Offered_Amount <= 0
        /\ row.Loss_Amount <= 0
        /\ row.Returned_Amount <= 0

\* C4: two calls of generate_data with the same option give the same outcome:
\* the same rows with the same values in every field.
C4_SameOptionSameTable ==
    \A i, j \in 1..Len(history) :
        history[i].option = history[j].option
            => /\ history[i].result.raised = history[j].result.raised
               /\ history[i].result.df = history[j].result.df

\* the same option was generated twice and returned a table of several rows,
\* the second call starting from the random state the first one left
C4_Witness ==
    /\ Len(history) >= 2
    /\ history[1].option = history[2].option
    /\ history[1].result.raised = "none"
    /\ Len(history[1].result.df.rows) >= 2
    /\ history[1].result.rng # np_random_seed(period(history[1].option).seed, 0)

(***************************************************************************)
(* Properties of the filter and the views.                                 *)
(***************************************************************************)
Filtered(n) == Len(applied) >= n /\ applied[n].raised = "none"

Shown(kind) == Len(view) = 1 /\ view[1].kind = kind /\ view[1].raised = "none"

RECURSIVE SumOver(_, _, _)
SumOver(groups, keys, col) ==
    IF keys = {} THEN 0
    ELSE LET c == CHOOSE c \in keys : TRUE
         IN  groups[c][col] + SumOver(groups, keys \ {c}, col)

RECURSIVE SumGroups(_, _)
SumGroups(groups, keys) ==
    IF keys = {} THEN 0
    ELSE LET c == CHOOSE c \in keys : TRUE
         IN  groups[c] + SumGroups(groups, keys \ {c})

Categorised(rows) == SelectSeq(rows, LAMBDA row : row.Category # NaN)

\* C5: filtering the filtered table again, by the same filter and the same
\* selection, returns the filtered table unchanged (same rows, same order).
C5_FilterIdempotent ==
    Filtered(2) => df = df_once

C5_Witness ==
    /\ Filtered(2)
    /\ category_filter = {"BEER", "FOOD"}
    /\ Len(input.rows) = MaxRows
    /\ Len(df.rows) > 0
    /\ Len(df.rows) < Len(input.rows)

\* C6: with a non-empty selection without "All" the filtered table holds
\* exactly the input rows whose Category is selected, each once; with "All"
\* in the selection it is the input table.
C6_FilterExact ==
    Filtered(1) =>
        LET kept == {i \in 1..Len(input.rows) : input.rows[i].Category \in category_filter}
        IN  /\ "All" \in category_filter => df_once = input
            /\ (category_filter # {} /\ "All" \notin category_filter) =>
                /\ \A j \in 1..Len(df_once.rows) : df_once.rows[j].Category \in category_filter
                /\ \A i \in kept : \E j \in 1..Len(df_once.rows) : df_once.rows[j] = input.rows[i]
                /\ Len(df_once.rows) = Cardinality(kept)

C6_Witness ==
    /\ Filtered(1)
    /\ applied[1].kind = "inline"
    /\ category_filter = {"All", "WINE"}
    /\ Len(input.rows) = MaxRows
    /\ \E i \in 1..Len(df_once.rows) : df_once.rows[i].Category = "BEER"

C6_WitnessSelected ==
    /\ Filtered(1)
    /\ category_filter = {"WINE"}
    /\ Len(input.rows) = MaxRows
    /\ Len(df_once.rows) > 0
    /\ Len(df_once.rows) < Len(input.rows)

\* x is a / b rounded to the nearest integer (b > 0)
Nearest(x, a, b) == 2 * Abs(x * b - a) <= b

\* C7 (as stated): on a table where every row has a category and the revenue
\* is not zero, the Revenue Shares of the categories present sum to 100%.
C7_SharesSumToHundred ==
    (Shown("category_performance")
        /\ Len(df.rows) > 0
        /\ Categorised(df.rows) = df.rows
        /\ SumColumn(df.rows, "Transaction_Amount") > 0)
    => SumOver(view[1].groups, DOMAIN view[1].groups, "Revenue_Share") = 1000

\* C7 (amended): each Revenue Share and Profit Share is the category's sum as
\* a percentage of the total of the table passed in, rounded to one decimal;
\* the Revenue Shares therefore sum to the percentage of the revenue that
\* rows with a category carry, within 0.05 per category; and a table of a
\* single category whose revenue is not zero reports 100.0% for it.
C7_SharesOfFilteredTotal ==
    Shown("category_performance") =>
        LET groups == view[1].groups
            total_revenue == SumColumn(df.rows, "Transaction_Amount")
            total_profit == SumColumn(df.rows, "Profit") \div 100
            categorised == SumColumn(Categorised(df.rows), "Transaction_Amount")
        IN  /\ total_revenue > 0 =>
                /\ \A c \in DOMAIN groups :
                       Nearest(groups[c].Revenue_Share,
                               groups[c].Transaction_Amount * 1000, total_revenue)
                /\ 2 * Abs(SumOver(groups, DOMAIN groups, "Revenue_Share") * total_revenue
                           - categorised * 1000)
                       <= Cardinality(DOMAIN groups) * total_revenue
                /\ (Cardinality(DOMAIN groups) = 1 /\ Categorised(df.rows) = df.rows) =>
                       \A c \in DOMAIN groups : groups[c].Revenue_Share = 1000
            /\ total_profit > 0 =>
                \A c \in DOMAIN groups :
                    Nearest(groups[c].Profit_Share, groups[c].Profit * 1000, total_profit)

C7_Witness ==
    /\ Shown("category_performance")
    /\ Filtered(1)
    /\ category_filter = {"BEER"}
    /\ Len(input.rows) = MaxRows
    /\ DOMAIN view[1].groups = {"BEER"}
    /\ view[1].groups["BEER"].Revenue_Share = 1000
    /\ SumColumn(df.rows, "Transaction_Amount") < SumColumn(input.rows, "Transaction_Amount")

C7_WitnessRounded ==
    /\ Shown("category_performance")
    /\ Cardinality(DOMAIN view[1].groups) = 3
    /\ Categorised(df.rows) = df.rows
    /\ SumOver(view[1].groups, DOMAIN view[1].groups, "Revenue_Share") # 1000

\* C8: the per-category sums of Transaction Amount add up to the sum of
\* Transaction Amount over all rows of the table that was grouped.
C8_GroupSumsEqualTotal ==
    Shown("aggregate") =>
        SumGroups(view[1].groups, DOMAIN view[1].groups)
            = SumColumn(df.rows, "Transaction_Amount")

\* C10: on a table with zero rows the metrics row is computed without an
\* error: revenue 0, profit 0, margin 0, average order value 0.
C10_MetricsRowOfEmptyTable ==
    (Len(view) = 1 /\ view[1].kind = "metrics" /\ Len(df.rows) = 0) =>
        /\ view[1].raised = "none"
        /\ view[1].total_revenue = 0
        /\ view[1].total_profit = 0
        /\ view[1].profit_margin = 0
        /\ view[1].avg_order = 0

\* the metrics row of a zero-row table that has the record's columns (a
\* filter that matched nothing) is all zeros
MetricsRowOfEmptySelection ==
    (Len(view) = 1 /\ view[1].kind = "metrics" /\ Len(df.rows) = 0 /\ df.columns) =>
        /\ view[1].raised = "none"
        /\ view[1].total_revenue = 0
        /\ view[1].total_profit = 0
        /\ view[1].profit_margin = 0
        /\ view[1].avg_order = 0

(***************************************************************************)
(* Properties of the product performance view.                             *)
(***************************************************************************)
Opposite(a, b) == a # b /\ metric(a) = metric(b)

SKUs(rows) == {rows[i].SKU : i \in 1..Len(rows)}

BothShown == Len(view) = 2 /\ view[1].raised = "none" /\ view[2].raised = "none"

\* some value of the column has at least TopN rows at or below it and at
\* least TopN rows above it: the TopN-th smallest value is less than the
\* TopN-th largest
Separated(rows, col) ==
    \E i \in 1..Len(rows) :
        LET v == sort_key(rows[i], col)
        IN  /\ Cardinality({j \in 1..Len(rows) : ~KeyLess(v, sort_key(rows[j], col))}) >= TopN
            /\ Cardinality({j \in 1..Len(rows) : KeyLess(v, sort_key(rows[j], col))}) >= TopN

\* no two rows have the same value in the column
Distinct(rows, col) ==
    \A i, j \in 1..Len(rows) :
        i # j => \/ KeyLess(sort_key(rows[i], col), sort_key(rows[j], col))
                 \/ KeyLess(sort_key(rows[j], col), sort_key(rows[i], col))

\* C9 (as stated): for a table of more than ten rows, the ten rows of a
\* "Most/Highest" option and those of the matching "Least/Lowest" option
\* are disjoint.
C9_TopBottomDisjoint ==
    (BothShown /\ Opposite(view[1].metric_sort, view[2].metric_sort)
        /\ Len(df.rows) > TopN)
    => SKUs(view[1].df_sorted) \cap SKUs(view[2].df_sorted) = {}

\* C9 (amended): the two selections are disjoint when the tenth smallest
\* value of the metric is less than its tenth largest value, which takes at
\* least twenty rows; with no two rows equal in the metric, twenty rows suffice.
C9_TopBottomDisjointWhenSeparated ==
    (BothShown /\ Opposite(view[1].metric_sort, view[2].metric_sort))
    => /\ Separated(df.rows, metric(view[1].metric_sort)) =>
              SKUs(view[1].df_sorted) \cap SKUs(view[2].df_sorted) = {}
       /\ Separated(df.rows, metric(view[1].metric_sort)) => Len(df.rows) >= 2 * TopN
       /\ (Len(df.rows) >= 2 * TopN /\ Distinct(df.rows, metric(view[1].metric_sort))) =>
              Separated(df.rows, metric(view[1].metric_sort))

C9_Witness ==
    /\ BothShown
    /\ view[1].metric_sort = "Most Sales"
    /\ view[2].metric_sort = "Least Sales"
    /\ Separated(df.rows, "Transaction_Amount")
    /\ Len(view[1].df_sorted) = TopN
    /\ Len(view[2].df_sorted) = TopN

\* with ties across the tenth place the selections can share rows even in
\* a table of twenty rows or more
C9_WitnessTies ==
    /\ BothShown
    /\ Opposite(view[1].metric_sort, view[2].metric_sort)
    /\ Len(df.rows) >= 2 * TopN
    /\ SKUs(view[1].df_sorted) \cap SKUs(view[2].df_sorted) # {}

(***************************************************************************)
(* Properties of load_data and the pipeline behind it.                     *)
(***************************************************************************)
LoadFailed == loaded # <<>> /\ loaded[1].file.kind # "csv"

C12_EmptyTableThroughPipeline ==
    LoadFailed =>
        /\ \A i \in 1..Len(applied) : applied[i].raised = "none"
        /\ \A i \in 1..Len(view) : view[i].raised = "none"

(***************************************************************************)
(* More properties of the generated tables.                                *)
(***************************************************************************)
\* the Profit Margin stored in the row is the fraction n / d, taken on the
\* scaled or the unscaled values as the flags tell
MarginIs(t, row, n, d) ==
    /\ row.Profit_Margin.d # 0
    /\ RatEq(row.Profit_Margin.n, row.Profit_Margin.d, n, d)
    /\ row.Profit_Margin.ns = ("Profit" \in t.scaled)
    /\ row.Profit_Margin.ds = ("Transaction_Amount" \in t.scaled)

\* C13: in every record of every returned table Profit = Transaction Amount -
\* Cost (on the scaled values in app.py), and Profit Margin = Profit /
\* Transaction Amount * 100 when Transaction Amount is not 0, and 0 when it is.
C13_ProfitAndMargin ==
    \A t \in Returned : \A row \in RowsOf(t) :
        /\ LinEq(LinAdd(Val(t, row, "Profit"), Val(t, row, "Cost")),
                 IF "Transaction_Amount" \in t.scaled
                   THEN <<row.Transaction_Amount * 10000, 0>>
                   ELSE <<0, row.Transaction_Amount * 10000>>,
                 t.scaling_factor)
        /\ row.Transaction_Amount # 0 =>
               MarginIs(t, row, row.Profit, row.Transaction_Amount * 100)
        /\ row.Transaction_Amount = 0 => row.Profit_Margin.n = 0

\* both variants returned a record with a margin: app.py a scaled one
C13_Witness ==
    \E t \in Returned : \E row \in RowsOf(t) :
        /\ variant = "app"
        /\ t.scaled = columns_to_scale
        /\ t.scaling_factor[1] # t.scaling_factor[2]
        /\ row.Transaction_Amount # 0
        /\ row.Profit_Margin.n # 0
        /\ row.Profit_Margin.ns /\ row.Profit_Margin.ds

C13_WitnessUnscaled ==
    \E t \in Returned : \E row \in RowsOf(t) :
        /\ variant = "dp"
        /\ row.Transaction_Amount # 0
        /\ row.Profit_Margin.n # 0

\* every generated record has a positive Transaction Amount: the deductions
\* take at most 30% of Total Amount, which is positive
TransactionAmountPositive ==
    \A t \in Returned : \A row \in RowsOf(t) : row.Transaction_Amount > 0

\* the calls of app.py's generate_data that returned a table
ScaledCalls ==
    {i \in 1..Len(history) : variant = "app" /\ history[i].result.raised = "none"}

\* the sum of the scaled Transaction Amount of table t is n / d dollars:
\* SumColumn * num / den = n / d
ScaledTotalIs(t, n, d) ==
    RatEq(t.scaling_factor[1], t.scaling_factor[2],
          n, d * SumColumn(t.rows, "Transaction_Amount"))

\* C14: after the scaling step the Transaction Amounts of the returned table
\* sum to the option's target_revenue.
C14_TotalIsTargetRevenue ==
    \A i \in ScaledCalls :
        ScaledTotalIs(history[i].result.df, target_revenue(history[i].option), 1000)

\* the scaled Transaction Amounts sum to the option's target_total_sales
TotalIsTargetTotalSales ==
    \A i \in ScaledCalls :
        ScaledTotalIs(history[i].result.df,
                      period(history[i].option).target_total_sales, 100)

\* C15: no call of generate_data ends in an error: every call returns a table.
C15_NoErrorOutcome ==
    \A i \in 1..Len(history) : history[i].result.raised = "none"

\* generate_data of src/data_processing.py returns a table from every call
DataProcessingNeverRaises ==
    variant = "dp" => \A i \in 1..Len(history) : history[i].result.raised = "none"

\* app.py's generate_data ends in the ValueError of an empty randint range
\* only for the 2025 option, and in a KeyError only when no item was included
AppErrorOutcomes ==
    \A i \in 1..Len(history) :
        /\ history[i].result.raised \in {"none", "ValueError", "KeyError"}
        /\ history[i].result.raised = "ValueError" =>
               history[i].option = "2025 (up to March 5)"

\* C16: a call of generate_data leaves the process-wide random source as it
\* was before the call (every step of the generator is a call).
C16_RandomSourceUntouched ==
    [][rng' = rng]_vars

\* the calls of generate_data that returned a table
ReturnedCalls == {i \in 1..Len(history) : history[i].result.raised = "none"}

CatalogItems(category) ==
    {catalog[CatalogKey(category)][i] : i \in 1..Len(catalog[CatalogKey(category)])}

\* no item name stands twice in the catalog, in one list or in two
CatalogNamesDistinct ==
    /\ \A c \in all_categories : Cardinality(CatalogItems(c)) = Len(catalog[CatalogKey(c)])
    /\ \A c1, c2 \in all_categories : c1 # c2 => CatalogItems(c1) \cap CatalogItems(c2) = {}

\* C17: in the table of one call no SKU has two records, every record's SKU
\* is an item of its Category's catalog list, the Category is one of the
\* seven, and the Year is the year tag of the call's option.
C17_RecordsFollowCatalog ==
    /\ CatalogNamesDistinct
    /\ \A i \in ReturnedCalls :
        LET rows == history[i].result.df.rows
        IN  /\ \A a, b \in 1..Len(rows) : a # b => rows[a].SKU # rows[b].SKU
            /\ \A a \in 1..Len(rows) :
                /\ rows[a].Category \in all_categories
                /\ rows[a].SKU \in CatalogItems(rows[a].Category)
                /\ rows[a].Year = period(history[i].option).year

C17_Witness ==
    \E i \in ReturnedCalls :
        LET rows == history[i].result.df.rows
        IN  /\ history[i].option = "2024 Full Year"
            /\ \E a, b \in 1..Len(rows) :
                   a # b /\ rows[a].Category = rows[b].Category
            /\ \E a, b \in 1..Len(rows) : rows[a].Category # rows[b].Category
            /\ \A a \in 1..Len(rows) : rows[a].Year = "2024"

\* the cost band [lo, hi) of a category, in 1/10000
CostBand(category) ==
    CASE category = "BEER" -> <<3500, 4500>>
      [] category = "COCKTAILS" -> <<2500, 3500>>
      [] category = "FOOD" -> <<4000, 5500>>
      [] category = "SPIRITS" -> <<3000, 4000>>
      [] category = "WINE" -> <<4500, 5500>>
      [] category = "N/A" -> <<1500, 2500>>
      [] category = "Merch" -> <<5000, 7000>>

\* C18: in every record of every returned table Cost / Total Amount lies in
\* the band of the record's Category; Cost and Total Amount carry the same
\* scaling factor, so the scaled ratio is the unscaled one.
C18_CostInCategoryBand ==
    \A t \in Returned : \A row \in RowsOf(t) :
        /\ ("Cost" \in t.scaled) = ("Total_Amount" \in t.scaled)
        /\ row.Total_Amount > 0
        /\ CostBand(row.Category)[1] * row.Total_Amount <= row.Cost
        /\ row.Cost < CostBand(row.Category)[2] * row.Total_Amount

\* a scaled table of app.py has a record at the low end of its band and a
\* record near the high end
C18_Witness ==
    \E t \in Returned :
        /\ t.scaled = columns_to_scale
        /\ \E row \in RowsOf(t) :
               row.Cost = CostBand(row.Category)[1] * row.Total_Amount
        /\ \E row \in RowsOf(t) :
               row.Cost > (CostBand(row.Category)[2] - 100) * row.Total_Amount

\* the margin m of a table scaled by f has the value of the unscaled margin
\* m0: the factor cancels when numerator and denominator both carry it (or
\* neither does); carried by one of them only, it must be 1 or the margin 0
SameMargin(m, f, m0) ==
    /\ m.d # 0
    /\ RatEq(m.n, m.d, m0.n, m0.d)
    /\ m.ns # m.ds => (f[1] = f[2] \/ m.n = 0)

\* C19: in every table app.py returns, each record's Profit Margin, recomputed
\* from the scaled Profit and Transaction Amount, is the margin the record
\* had before scaling.
C19_ScalingPreservesMargin ==
    \A i \in ScaledCalls :
        LET t == history[i].result.df
        IN  \A row \in RowsOf(t) :
                SameMargin(row.Profit_Margin, t.scaling_factor,
                           profit_margin(row.Profit, row.Transaction_Amount))

\* a table scaled down by a factor below 1, with records of different margins
C19_Witness ==
    \E i \in ScaledCalls :
        LET t == history[i].result.df
        IN  /\ t.scaling_factor[1] < t.scaling_factor[2]
            /\ \E r1, r2 \in RowsOf(t) :
                /\ r1.Profit_Margin.n # 0
                /\ r1.Profit_Margin.ns /\ r1.Profit_Margin.ds
                /\ ~RatEq(r1.Profit_Margin.n, r1.Profit_Margin.d,
                          r2.Profit_Margin.n, r2.Profit_Margin.d)

(***************************************************************************)
(* More properties of the product performance view.                        *)
(***************************************************************************)
\* the value of row x comes no later than that of row y in the direction of
\* the option: no larger for Least / Lowest, no smaller for Most / Highest
InOrder(x, y, metric_sort) ==
    IF metric_sort \in {"Least Sales", "Least Profit", "Lowest Margin", "Least Orders"}
      THEN ~KeyLess(sort_key(y, metric(metric_sort)), sort_key(x, metric(metric_sort)))
      ELSE ~KeyLess(sort_key(x, metric(metric_sort)), sort_key(y, metric(metric_sort)))

\* C20: each option shown selects min(10, n) different rows of the n-row
\* table, listed in the option's order (largest first for Most / Highest,
\* smallest first for Least / Lowest), and no row left out has a value that
\* belongs before a selected one.
C20_SelectsExtremeRows ==
    \A i \in 1..Len(view) :
        view[i].raised = "none" =>
            LET sel == view[i].df_sorted
                opt == view[i].metric_sort
                rest == {r \in RowsOf(df) : \A p \in 1..Len(sel) : sel[p] # r}
            IN  /\ Len(sel) = Min(TopN, Len(df.rows))
                /\ \A p \in 1..Len(sel) : sel[p] \in RowsOf(df)
                /\ \A p, q \in 1..Len(sel) : p # q => sel[p].SKU # sel[q].SKU
                /\ \A p, q \in 1..Len(sel) : p < q => InOrder(sel[p], sel[q], opt)
                /\ \A r \in rest : \A p \in 1..Len(sel) : InOrder(sel[p], r, opt)

\* ten rows are shown out of the largest table, for a metric in which the
\* tenth row shown ties with a row left out
C20_Witness ==
    /\ Len(view) >= 1
    /\ view[1].raised = "none"
    /\ view[1].metric_sort = "Highest Margin"
    /\ Len(df.rows) = MaxRows
    /\ Len(view[1].df_sorted) = TopN
    /\ \E r \in RowsOf(df) :
        /\ \A p \in 1..TopN : view[1].df_sorted[p] # r
        /\ InOrder(r, view[1].df_sorted[TopN], "Highest Margin")
    /\ \E p \in 1..TopN :
           KeyLess(sort_key(view[1].df_sorted[TopN], "Profit_Margin"),
                   sort_key(view[1].df_sorted[p], "Profit_Margin"))

(***************************************************************************)
(* Properties of the dashboard script.                                     *)
(***************************************************************************)
\* the views that ran so far, in order
ViewsRun == [i \in 1..Len(view) |-> view[i].kind]

\* the options generate_data was called with so far, in order
OptionsCalled == [i \in 1..Len(history) |-> history[i].option]

\* the tables the calls returned, in order
TablesReturned == [i \in 1..Len(history) |-> history[i].result.df]

IsPrefix(s, t) == Len(s) <= Len(t) /\ s = SubSeq(t, 1, Len(s))

PastLoad == render.pc \in {"filter", "dispatch", "views", "done"}

PastFilter == render.pc \in {"dispatch", "views", "done"}

\* the rows of the loaded table the selection keeps
KeptRows ==
    IF "All" \in category_filter THEN input.rows
    ELSE SelectSeq(input.rows, LAMBDA row : row.Category \in category_filter)

\* C21: on a render the tables are generated first (the three periods, in
\* order, combined for "All Time Comparison", the one table otherwise), the
\* category filter is applied next, and only then views run; every view is
\* given the filtered rows of the loaded table and nothing else; the views
\* that run are those of the selected analysis type, in order: the metrics
\* row, the category breakdown and the product performance for "Overview",
\* the single view of the type otherwise.
C21_RenderOrder ==
    /\ ~PastLoad => applied = <<>> /\ view = <<>>
    /\ PastLoad =>
        /\ OptionsCalled =
             (IF render.data_option = "All Time Comparison"
                THEN <<"2023 Full Year", "2024 Full Year", "2025 (up to March 5)">>
                ELSE <<render.data_option>>)
        /\ \A i \in 1..Len(history) : history[i].result.raised = "none"
        /\ input.rows =
             (IF render.data_option = "All Time Comparison"
                THEN TablesReturned[1].rows \o TablesReturned[2].rows \o TablesReturned[3].rows
                ELSE TablesReturned[1].rows)
    /\ ~PastFilter => view = <<>>
    /\ PastFilter => Len(applied) = 1 /\ df.rows = KeptRows
    /\ \A i \in 1..Len(view) : view[i].df.rows = KeptRows
    /\ render.pc = "views" =>
        /\ render.pending # <<>>
        /\ IF render.analysis_type = "Overview"
             THEN IsPrefix(ViewsRun, <<"create_metrics_row", "create_category_breakdown",
                                       "create_product_performance">>)
             ELSE view = <<>>
    /\ render.pc = "done" =>
        ViewsRun =
          (CASE render.analysis_type = "Overview" ->
                  <<"create_metrics_row", "create_category_breakdown",
                    "create_product_performance">>
             [] render.analysis_type = "Sales Analysis" -> <<"create_sales_analysis">>
             [] render.analysis_type = "Profitability Analysis" ->
                  <<"create_profitability_analysis">>
             [] render.analysis_type = "Category Performance" ->
                  <<"create_category_performance">>
             [] render.analysis_type = "Product Performance" ->
                  <<"create_product_performance">>)

\* a render of "All Time Comparison", filtered to a selection that keeps
\* some rows and drops others, has run the three views of "Overview"
C21_Witness ==
    /\ render.pc = "done"
    /\ render.data_option = "All Time Comparison"
    /\ render.analysis_type = "Overview"
    /\ Len(view) = 3
    /\ "All" \notin category_filter
    /\ df.rows # <<>>
    /\ Len(df.rows) < Len(input.rows)

\* C22: no view changes the table it is given: after every view the script's
\* df has the rows, the values and the columns the filter left (no view has
\* assigned a column in it), so the views of "Overview" all get the same table.
C22_ViewsLeaveTable ==
    /\ render.assigned = {}
    /\ PastFilter => df = df_once
    /\ \A i \in 1..Len(view) : view[i].df = df_once /\ view[i].assigned = {}

\* the three views of "Overview" have run on a table with rows
C22_Witness ==
    /\ render.pc = "done"
    /\ ViewsRun = <<"create_metrics_row", "create_category_breakdown",
                    "create_product_performance">>
    /\ df_once.rows # <<>>

\* the sales analysis, which works on df.copy(), has run on a table with rows
C22_WitnessCopy ==
    /\ render.pc = "done"
    /\ ViewsRun = <<"create_sales_analysis">>
    /\ df_once.rows # <<>>

\* the category views
CategoryViewShown ==
    Shown("category_breakdown") \/ Shown("category_performance")

IsZero(ratio) == ratio.finite /\ ratio.value = 0

\* C23: in the category breakdown and the category performance, a category
\* whose summed denominator is 0 gets the derived ratio 0 (profit margin for
\* Transaction Amount 0; average order value and items per order for
\* Transaction Count 0; revenue per item for Transaction Quantity 0): a
\* finite number, not nan or inf.
C23_ZeroDenominatorGivesZero ==
    CategoryViewShown =>
        \A c \in DOMAIN view[1].groups :
            LET group == view[1].groups[c]
            IN  /\ group.Transaction_Amount = 0 => IsZero(group.Profit_Margin)
                /\ group.Transaction_Count = 0 => IsZero(group.Avg_Order_Value)
                /\ (Shown("category_performance") /\ group.Transaction_Count = 0)
                      => IsZero(group.Avg_Items_Per_Order)
                /\ (Shown("category_performance") /\ group.Transaction_Quantity = 0)
                      => IsZero(group.Revenue_Per_Item)

\* what the code does instead: the ratio of a category with a zero
\* denominator is never a number
ZeroDenominatorGivesNonFinite ==
    CategoryViewShown =>
        \A c \in DOMAIN view[1].groups :
            LET group == view[1].groups[c]
            IN  /\ group.Transaction_Amount = 0 => ~group.Profit_Margin.finite
                /\ group.Transaction_Count = 0 => ~group.Avg_Order_Value.finite

\* the items the spec designates as top performers of a category
TopPerformers(category) ==
    CASE category = "FOOD" -> {"NYE TACOS", "SUNCHOKES", "CHARRED BEETS"}
      [] category = "COCKTAILS" -> {"Open Cocktail", "SHOOTER", "COCKTAIL OF THE DAY"}
      [] category = "SPIRITS" -> {"SAZERAC", "MONTENEGRO", "Bourbon", "ESPOLON"}
      [] OTHER -> {}

\* the valid items of a category in a returned table: every valid item has a record
ValidItemsOf(t, category) ==
    LET rows == SelectSeq(t.rows, LAMBDA row : row.Category = category)
    IN  [i \in 1..Len(rows) |-> rows[i].SKU]

\* the tables of app.py's generate_data in which a category has a top
\* performer and an ordinary item among its valid items
MixedCategories(t) ==
    {c \in all_categories :
        LET valid == ValidItemsOf(t, c)
        IN  \E a, b \in 1..Len(valid) :
                valid[a] \in TopPerformers(c) /\ valid[b] \notin TopPerformers(c)}

\* C24: in app.py's generate_data a designated top performer gets a strictly
\* larger normalized weight than an ordinary valid item of the same category
\* (before the random jitter).
C24_TopPerformersWeighMore ==
    \A i \in ScaledCalls :
        LET t == history[i].result.df
        IN  \A c \in MixedCategories(t) :
                LET valid == ValidItemsOf(t, c)
                IN  \A a, b \in 1..Len(valid) :
                        (valid[a] \in TopPerformers(c) /\ valid[b] \notin TopPerformers(c))
                        => LET top == normalized_weight(c, valid[a], valid)
                               ordinary == normalized_weight(c, valid[b], valid)
                           IN  RatLess(ordinary[1], ordinary[2], top[1], top[2])

\* what the code does instead: every valid item of a category gets the
\* normalized weight 1 / len(valid_items)
NormalizedWeightsEqual ==
    \A i \in ScaledCalls :
        LET t == history[i].result.df
        IN  \A c \in all_categories :
                LET valid == ValidItemsOf(t, c)
                IN  \A a \in 1..Len(valid) :
                        RatEq(normalized_weight(c, valid[a], valid)[1],
                              normalized_weight(c, valid[a], valid)[2], 1, Len(valid))

\* C25: the inline filter of app.py and filter_data give the same result
\* (the same rows, or the same error) for every table and every selection,
\* the empty selection and "All" together with other categories included:
\* whichever of the two was applied, the other one gives the table it left.
C25_FiltersAgree ==
    Len(applied) = 1 =>
        /\ filter_data(input, category_filter).raised = applied[1].raised
        /\ inline_filter(input, category_filter).raised = applied[1].raised
        /\ applied[1].raised = "none" =>
            /\ filter_data(input, category_filter).df = df
            /\ inline_filter(input, category_filter).df = df

\* the two filters agree on every selection but the empty one, where
\* filter_data keeps every row and the inline filter none
FiltersAgreeUnlessEmpty ==
    Len(applied) = 1 =>
        IF category_filter # {}
          THEN filter_data(input, category_filter) = inline_filter(input, category_filter)
          ELSE /\ filter_data(input, category_filter).df = input
               /\ input.columns => inline_filter(input, category_filter).df.rows = <<>>

\* the call of generate_data for the option alone, started in random state `state`
Standalone(option, state) == generate_data(variant, option, state)

\* C26: the table a call of generate_data returns for a period is the table
\* of the period whatever calls came before it: it equals the standalone
\* call's table from every state of the random source.  So each of the three
\* parts of "All Time Comparison" is the standalone table of its period, and
\* the combined table has as many rows as the three together.
C26_TableIndependentOfEarlierCalls ==
    render.pc = "filter" =>
        /\ \A i \in 1..Len(history) : \A state \in 0..(Period - 1) :
               /\ Standalone(history[i].option, state).raised = "none"
               /\ Standalone(history[i].option, state).df = history[i].result.df
        /\ render.data_option = "All Time Comparison" =>
               /\ Len(history) = 3
               /\ Len(input.rows) = Len(history[1].result.df.rows)
                                    + Len(history[2].result.df.rows)
                                    + Len(history[3].result.df.rows)
               /\ \A i \in 1..3 :
                      \A row \in RowsOf(history[i].result.df) : row \in RowsOf(input)

\* "All Time Comparison" was loaded: three tables with rows, the later calls
\* starting from the random state the earlier ones left
C26_Witness ==
    /\ render.pc = "filter"
    /\ render.data_option = "All Time Comparison"
    /\ \A i \in 1..3 : history[i].result.df.rows # <<>>
    /\ history[1].result.rng # np_random_seed(period(history[2].option).seed, 0)
    /\ history[1].result.df.rows # history[2].result.df.rows

\* either variant: the outcome of the last call is that of the standalone
\* call from every state of the random source
LastCallIndependentOfEarlierCalls ==
    Len(history) = MaxCalls =>
        \A state \in 0..(Period - 1) :
            Standalone(history[MaxCalls].option, state) = history[MaxCalls].result

\* C27: every record of every table generate_data returns (either variant)
\* has Transaction Amount > 0: the discount, loss and return amounts take at
\* most 15% + 10% + 5% of Total Amount, which is positive.  So the stored
\* margin is never the 0 of the zero-amount branch but Profit over
\* Transaction Amount, and the margin recomputed after scaling (app.py)
\* divides by a Transaction Amount that is not zero.
C27_TransactionAmountPositive ==
    \A i \in ReturnedCalls :
        LET t == history[i].result.df
        IN  /\ \A row \in RowsOf(t) :
                /\ row.Total_Amount > 0
                /\ row.Transaction_Amount > 0
                /\ -(row.Discounted_Amount + row.Loss_Amount + row.Returned_Amount) * 100
                       <= 30 * row.Total_Amount
                /\ 10 * row.Transaction_Amount >= 7 * row.Total_Amount
                /\ row.Profit_Margin.n = row.Profit
                /\ row.Profit_Margin.d = row.Transaction_Amount * 100
            /\ t.scaling_factor[1] > 0
            /\ t.scaling_factor[2] > 0

\* a record with a discount, a loss and a return, in a scaled table
C27_Witness ==
    \E i \in ScaledCalls : \E row \in RowsOf(history[i].result.df) :
        /\ row.Discounted_Amount < 0
        /\ row.Loss_Amount < 0
        /\ row.Returned_Amount < 0
        /\ row.Transaction_Amount < row.Total_Amount

\* C28: every record of every table generate_data returns (either variant)
\* has Profit > 0: Cost is Total Amount times a cost factor below 70%, hence
\* below 70% of Total Amount, and Transaction Amount is at least 70% of it.
\* Scaling (app.py) multiplies Profit by a positive factor.
C28_ProfitPositive ==
    \A i \in ReturnedCalls :
        LET t == history[i].result.df
        IN  /\ \A row \in RowsOf(t) :
                /\ row.Cost < 7000 * row.Total_Amount
                /\ 7000 * row.Total_Amount <= row.Transaction_Amount * 10000
                /\ row.Profit = row.Transaction_Amount * 10000 - row.Cost
                /\ row.Profit > 0
            /\ "Profit" \in t.scaled => t.scaling_factor[1] > 0 /\ t.scaling_factor[2] > 0

\* a Merch record with the largest cost factor and all three deductions
C28_Witness ==
    \E i \in ReturnedCalls : \E row \in RowsOf(history[i].result.df) :
        /\ row.Category = "Merch"
        /\ row.Cost > 6900 * row.Total_Amount
        /\ row.Transaction_Amount < row.Total_Amount

\* a FOOD record of a scaled table, with a discount
C28_WitnessScaled ==
    \E i \in ScaledCalls : \E row \in RowsOf(history[i].result.df) :
        /\ row.Category = "FOOD"
        /\ row.Discounted_Amount < 0
        /\ "Profit" \in history[i].result.df.scaled

\* the five quantities taken off Total Quantity
Deducted(row) ==
    row.Zero_Priced_Count + row.Discounted_Quantity + row.Offered_Quantity
        + row.Loss_Quantity + row.Returned_Quantity

\* C29: in every record of every table generate_data returns (either
\* variant) the floor at 0 of Transaction Quantity has no effect: the five
\* deducted quantities are at most 5% + 15% + 5% + 5% + 3% = 33% of Total
\* Quantity, so Transaction Quantity is Total Quantity less the five, and it
\* is strictly positive.
C29_QuantityFloorUnused ==
    \A t \in Returned : \A row \in RowsOf(t) :
        /\ 100 * Deducted(row) <= 33 * row.Total_Quantity
        /\ row.Transaction_Quantity = row.Total_Quantity - Deducted(row)
        /\ row.Transaction_Quantity > 0

\* a record all five of whose deducted quantities are positive and take more
\* than 30% of its Total Quantity
C29_Witness ==
    \E t \in Returned : \E row \in RowsOf(t) :
        /\ row.Zero_Priced_Count > 0 /\ row.Discounted_Quantity > 0
        /\ row.Offered_Quantity > 0 /\ row.Loss_Quantity > 0
        /\ row.Returned_Quantity > 0
        /\ 100 * Deducted(row) > 30 * row.Total_Quantity

\* a record of the smallest Total Quantity the draw can give
C29_WitnessSmallest ==
    \E t \in Returned : \E row \in RowsOf(t) : row.Total_Quantity = 10

\* the calls made with an option the if / elif does not name
OtherCalls == {i \in 1..Len(history) : history[i].option \in OtherOptions}

\* C30: a call of generate_data with an option other than the 2023 and 2024
\* strings, an unrecognised one such as "All Time Comparison" included, does
\* not fail and does not return an empty table: it gives what the call with
\* "2025 (up to March 5)" gives, rows with Year "2025" drawn with seed 2025.
C30_OtherOptionGives2025Table ==
    \A i \in OtherCalls :
        /\ history[i].result.raised = "none"
        /\ history[i].result.df.rows # <<>>
        /\ history[i].result = Standalone("2025 (up to March 5)", 0)
        /\ \A row \in RowsOf(history[i].result.df) : row.Year = "2025"

\* the part that holds: the outcome of the call, the error included, is that
\* of the call with "2025 (up to March 5)"
OtherOptionAs2025 ==
    \A i \in OtherCalls :
        /\ history[i].result = Standalone("2025 (up to March 5)", 0)
        /\ period(history[i].option) = [seed |-> 2025, year |-> "2025",
                                        target_total_sales |-> 8911530]
        /\ \A row \in RowsOf(history[i].result.df) : row.Year = "2025"

====
